---- MODULE Spec2Model ----
(***************************************************************************)
(* Annual Report Analyst: the Streamlit session controller (src/app.py)    *)
(* and the document pipeline (src/rag_engine.py).                          *)
(*                                                                         *)
(* Text is a sequence of one-character strings, so that lower-casing and   *)
(* the substring tests of classify_section are computed, not assumed.      *)
(***************************************************************************)
EXTENDS Integers, Sequences, FiniteSets, TLC

\* ---- bounds of the model ------------------------------------------------
MaxWords == 3
MaxPages == 3
MaxResets == 2
MaxTurns == 3

VARIABLES
    id,            \* st.session_state.id
    vectorstore,   \* st.session_state.vectorstore (present = FALSE: key absent)
    chat_history,  \* st.session_state.chat_history
    uploader,      \* file held by the st.file_uploader widget, per widget key
    chroma_db,     \* does the directory ./chroma_db exist
    usedKeys,      \* the uploader keys rendered so far in the session
    run,           \* what the last script run did (event, exception, calls)
    page_text,     \* classification: the text handed to classify_section
    label,         \* classification: the label returned
    pdf,           \* pipeline: the pages PyMuPDFLoader returns for the file
    built,         \* pipeline: the chunks handed to Chroma.from_documents
    stage          \* "input" before, "done" after the pure function ran

svars == <<id, vectorstore, chat_history, uploader, chroma_db, usedKeys, run>>
fvars == <<page_text, label, pdf, built, stage>>
vars == <<id, vectorstore, chat_history, uploader, chroma_db, usedKeys, run,
          page_text, label, pdf, built, stage>>

\* ---- text ---------------------------------------------------------------
UpperChars == <<"A", "B", "C", "D", "E", "F", "G", "H", "I", "J", "K", "L", "M", "N", "O", "P", "Q", "R", "S", "T", "U", "V", "W", "X", "Y", "Z">>
LowerChars == <<"a", "b", "c", "d", "e", "f", "g", "h", "i", "j", "k", "l", "m", "n", "o", "p", "q", "r", "s", "t", "u", "v", "w", "x", "y", "z">>

lower_char(c) ==
    IF \E i \in 1..26 : UpperChars[i] = c
    THEN LowerChars[CHOOSE i \in 1..26 : UpperChars[i] = c]
    ELSE c

\* str.lower()
lower(t) == [i \in 1..Len(t) |-> lower_char(t[i])]

\* Python's `kw in t` on strings
In(kw, t) ==
    \E i \in 1..(Len(t) - Len(kw) + 1) : \A j \in 1..Len(kw) : t[i + j - 1] = kw[j]

KW_management_discussion == <<"m", "a", "n", "a", "g", "e", "m", "e", "n", "t", " ", "d", "i", "s", "c", "u", "s", "s", "i", "o", "n">>
KW_mdna == <<"m", "d", "&", "a">>
KW_risk == <<"r", "i", "s", "k">>
KW_financial_statement == <<"f", "i", "n", "a", "n", "c", "i", "a", "l", " ", "s", "t", "a", "t", "e", "m", "e", "n", "t">>
KW_balance_sheet == <<"b", "a", "l", "a", "n", "c", "e", " ", "s", "h", "e", "e", "t">>
KW_notes_to == <<"n", "o", "t", "e", "s", " ", "t", "o">>
KW_notice == <<"n", "o", "t", "i", "c", "e">>
KW_e_voting == <<"e", "-", "v", "o", "t", "i", "n", "g">>
KW_agm == <<"a", "g", "m">>

classify_section_financials_first(txt) ==
    LET t == lower(txt) IN
    IF In(KW_management_discussion, t) \/ In(KW_mdna, t) THEN "mdna"
    ELSE IF In(KW_financial_statement, t) \/ In(KW_balance_sheet, t) THEN "financials"
    ELSE IF In(KW_risk, t) THEN "risk"
    ELSE IF In(KW_notes_to, t) THEN "notes"
    ELSE IF In(KW_notice, t) \/ In(KW_e_voting, t) \/ In(KW_agm, t) THEN "legal"
    ELSE "other"

classify_section(txt) ==
    LET t == lower(txt) IN
    IF In(KW_management_discussion, t) \/ In(KW_mdna, t) THEN "mdna"
    ELSE IF In(KW_risk, t) THEN "risk"
    ELSE IF In(KW_financial_statement, t) \/ In(KW_balance_sheet, t) THEN "financials"
    ELSE IF In(KW_notes_to, t) THEN "notes"
    ELSE IF In(KW_notice, t) \/ In(KW_e_voting, t) \/ In(KW_agm, t) THEN "legal"
    ELSE "other"

\* ---- process_document_to_chroma -----------------------------------------
\* PyMuPDFLoader.load(): one document per page, metadata page is 0-based
load(pages) ==
    [i \in 1..Len(pages) |-> [page_content |-> pages[i], page |-> i - 1]]

keep_every_section(section) == TRUE

\* `if section != "legal"`
keep_section(section) == section # "legal"

\* the loop over docs: classify, drop legal pages, set metadata["section"]
filtered_docs(docs) ==
    LET labelled == [i \in 1..Len(docs) |->
            [page_content |-> docs[i].page_content,
             metadata |-> [page |-> docs[i].page,
                           section |-> classify_section(docs[i].page_content)]]]
    IN  SelectSeq(labelled, LAMBDA d : keep_section(d.metadata.section))

get_chunk_params(section) ==
    IF section \in {"financials", "notes"} THEN <<1800, 300>> ELSE <<1200, 150>>

\* the windows of chunk_size characters, consecutive ones sharing chunk_overlap
RECURSIVE split_text(_, _, _, _)
split_text(t, start, chunk_size, chunk_overlap) ==
    IF start > Len(t) THEN <<>>
    ELSE IF start + chunk_size - 1 >= Len(t) THEN <<SubSeq(t, start, Len(t))>>
    ELSE <<SubSeq(t, start, start + chunk_size - 1)>>
         \o split_text(t, start + chunk_size - chunk_overlap, chunk_size, chunk_overlap)

\* splitter.split_documents([doc]): every chunk carries the page's metadata
split_documents(doc, chunk_size, chunk_overlap) ==
    LET parts == split_text(doc.page_content, 1, chunk_size, chunk_overlap)
    IN  [i \in 1..Len(parts) |-> [page_content |-> parts[i], metadata |-> doc.metadata]]

RECURSIVE all_splits(_)
all_splits(docs) ==
    IF docs = <<>> THEN <<>>
    ELSE LET params == get_chunk_params(Head(docs).metadata.section)
         IN  split_documents(Head(docs), params[1], params[2]) \o all_splits(Tail(docs))

\* the documents handed to Chroma.from_documents
process_document_to_chroma(pages) == all_splits(filtered_docs(load(pages)))

\* ---- inputs -------------------------------------------------------------
W_MDA == <<"M", "D", "&", "A">>
W_Management == <<"M", "a", "n", "a", "g", "e", "m", "e", "n", "t", " ">>
W_Discussion == <<"D", "i", "s", "c", "u", "s", "s", "i", "o", "n">>
W_asterisk == <<"a", "s", "t", "e", "r", "i", "s", "k">>
W_RISK == <<"R", "I", "S", "K">>
W_Balance == <<"B", "a", "l", "a", "n", "c", "e", " ", "S", "h", "e", "e", "t">>
W_Financial == <<"F", "i", "n", "a", "n", "c", "i", "a", "l", " ", "S", "t", "a", "t", "e", "m", "e", "n", "t">>
W_notes == <<"N", "o", "t", "e", "s", " ">>
W_to == <<"t", "o">>
W_Notice == <<"N", "o", "t", "i", "c", "e">>
W_evoting == <<"E", "-", "V", "o", "t", "i", "n", "g">>
W_fragment == <<"f", "r", "A", "G", "M", "e", "n", "t">>
W_revenue == <<"r", "e", "v", "e", "n", "u", "e">>
W_space == <<" ">>

Words == {W_MDA, W_Management, W_Discussion, W_asterisk, W_RISK, W_Balance, W_Financial,
          W_notes, W_to, W_Notice, W_evoting, W_fragment, W_revenue, W_space}

RECURSIVE TextsOf(_)
TextsOf(n) ==
    IF n = 0 THEN {<<>>}
    ELSE LET shorter == TextsOf(n - 1) IN shorter \cup {t \o w : t \in shorter, w \in Words}

\* every combination of keyword groups, the lower-priority keywords first
ComboTexts ==
    {legal \o W_space \o notes \o W_space \o financials \o W_space \o risk \o W_space \o mdna :
        legal \in {<<>>, W_Notice, W_evoting, W_fragment},
        notes \in {<<>>, W_notes \o W_to},
        financials \in {<<>>, W_Balance, W_Financial},
        risk \in {<<>>, W_RISK, W_asterisk},
        mdna \in {<<>>, W_MDA, W_Management \o W_Discussion}}

Texts == TextsOf(MaxWords) \cup ComboTexts

P_agm == <<"A", "G", "M", " ", "N", "o", "t", "i", "c", "e", ":", " ", "e", "-", "v", "o", "t", "i", "n", "g", " ", "o", "p", "e", "n", "s", " ", "M", "a", "r", "c", "h", " ", "1">>
P_balance == <<"B", "a", "l", "a", "n", "c", "e", " ", "S", "h", "e", "e", "t", " ", "R", "e", "v", "e", "n", "u", "e", " ", "|", " ", "1", "0", "0", " ", "|", " ", "1", "2", "0">>
P_risk == <<"R", "i", "s", "k", " ", "f", "a", "c", "t", "o", "r", "s">>
P_risk_notice == <<"N", "o", "t", "i", "c", "e", " ", "o", "f", " ", "r", "i", "s", "k">>
P_other == <<"R", "e", "v", "e", "n", "u", "e", " ", "g", "r", "e", "w">>
P_notes == <<"N", "o", "t", "e", "s", " ", "t", "o", " ", "a", "c", "c", "o", "u", "n", "t", "s">>
P_mdna == <<"M", "D", "&", "A", " ", "o", "v", "e", "r", "v", "i", "e", "w">>
P_empty == <<>>

\* a notes page longer than one 1800-character chunk
P_long_notes == [i \in 1..1900 |-> IF i <= Len(P_notes) THEN P_notes[i] ELSE "0"]
\* a page longer than one 1200-character chunk that ends with the AGM notice
P_long_legal ==
    [i \in 1..1300 |-> IF i > 1300 - Len(P_agm) THEN P_agm[i - (1300 - Len(P_agm))] ELSE " "]

PagePool == {P_agm, P_balance, P_risk_notice, P_other, P_empty, P_long_notes, P_long_legal}

RECURSIVE PdfsOf(_)
PdfsOf(n) ==
    IF n = 0 THEN {<<>>}
    ELSE LET shorter == PdfsOf(n - 1) IN shorter \cup {Append(d, p) : d \in shorter, p \in PagePool}

Pdfs == PdfsOf(MaxPages)

\* ---- the session (src/app.py) -------------------------------------------
NoFile == "none"
Files == {"report_a", "report_b"}

\* the pages the loader returns for each file the user may pick
FilePages(f) ==
    IF f = "report_a" THEN <<P_other, P_balance, P_agm>> ELSE <<P_risk, P_notes>>

\* process_document_to_chroma(tmp_path), for each file
FileDocs == [f \in Files |-> process_document_to_chroma(FilePages(f))]

Questions == {"q1", "q2"}
Answers == {"a1"}
UploadOutcomes == {"ok", "ingest", "embed"}
RetrievalOutcomes == {"ok", "llm", "search"}
StreamOutcomes == {"ok", "fail", "interrupted"}

HumanMessage(content) == [role |-> "user", content |-> content]
AIMessage(content) == [role |-> "assistant", content |-> content]

\* "vectorstore" not in st.session_state
NoIndex == [present |-> FALSE, source |-> NoFile, key |-> -1, docs |-> <<>>]

\* the store process_document_to_chroma returns; key remembers the uploader
\* key the file was uploaded under
Chroma(f, key) ==
    [present |-> TRUE, source |-> f, key |-> key, docs |-> FileDocs[f]]

NoRun ==
    [event |-> "start", after |-> "start", input |-> "", raised |-> "none",
     shown |-> "none", calls |-> <<>>, processed |-> FALSE,
     delete_called |-> FALSE, delete_failed |-> FALSE, rmtree_failed |-> FALSE]

\* st.file_uploader(..., key=f"uploader_{st.session_state.id}")
file_uploader(widgets, session_id) == widgets[session_id]

\* `if uploaded_file and "vectorstore" not in st.session_state:` and its body
upload_block(uploaded_file, session_id, vs, outcome) ==
    LET needed == uploaded_file # NoFile /\ ~vs.present IN
    [processed |-> needed,
     raised |-> IF needed /\ outcome # "ok" THEN outcome ELSE "none",
     vectorstore |-> IF needed /\ outcome = "ok" THEN Chroma(uploaded_file, session_id) ELSE vs]

has_vectorstore_always(vs) == TRUE

\* reset_application: `if "vectorstore" in st.session_state:`
has_vectorstore_reset(vs) == vs.present

\* main chat loop: `if "vectorstore" in st.session_state:`
has_vectorstore_chat(vs) == vs.present

vectorstore_kept_on_failure(vs, delete_failed) == IF delete_failed THEN vs ELSE NoIndex

\* `del st.session_state.vectorstore`, after the try/except around delete_collection
vectorstore_after_wipe(vs, delete_failed) == NoIndex

same_session_id(session_id) == session_id

\* `st.session_state.id += 1`
next_session_id(session_id) == session_id + 1

\* create_history_aware_retriever: with no history the input goes straight to
\* the retriever, otherwise the LLM rewrites it first (rewritten is its output)
history_aware_retriever(history, input, rewritten) ==
    IF history = <<>>
    THEN <<[op |-> "search", chat_history |-> <<>>, input |-> input]>>
    ELSE <<[op |-> "reformulate", chat_history |-> history, input |-> input],
           [op |-> "search", chat_history |-> <<>>, input |-> rewritten]>>

history_after_any_stream(history, stream, answer) ==
    IF stream = "fail" THEN history ELSE Append(history, AIMessage(answer))

\* `response_text = st.write_stream(...)` then the append of the AIMessage
history_after_stream(history, stream, answer) ==
    IF stream = "ok" THEN Append(history, AIMessage(answer)) ELSE history

\* `if prompt := st.chat_input(...)` and its body
chat_loop(history, vs, prompt, retrieval, stream, rewritten, answer) ==
    LET h1 == Append(history, HumanMessage(prompt))
        planned == history_aware_retriever(h1, prompt, rewritten)
        llm_failed == retrieval = "llm" /\ planned[1].op = "reformulate"
        made == IF llm_failed THEN SubSeq(planned, 1, 1) ELSE planned
        generate == [op |-> "generate", chat_history |-> h1, input |-> prompt]
    IN  IF ~has_vectorstore_chat(vs)
        THEN [chat_history |-> h1, raised |-> "none", shown |-> "upload_first", calls |-> <<>>]
        ELSE IF ~vs.present
        THEN [chat_history |-> h1, raised |-> "AttributeError", shown |-> "exception", calls |-> <<>>]
        ELSE IF llm_failed \/ retrieval = "search"
        THEN [chat_history |-> h1, raised |-> "retrieve", shown |-> "exception", calls |-> made]
        ELSE [chat_history |-> history_after_stream(h1, stream, answer),
              raised |-> IF stream = "ok" THEN "none" ELSE "generate",
              shown |-> IF stream = "ok" THEN "answer"
                        ELSE IF stream = "interrupted" THEN "partial" ELSE "exception",
              calls |-> Append(made, generate)]

SessionInit ==
    /\ id = 0
    /\ vectorstore = NoIndex
    /\ chat_history = <<>>
    /\ uploader = [k \in 0..MaxResets |-> NoFile]
    /\ usedKeys = {0}
    /\ run = NoRun

FunctionsIdle ==
    /\ page_text = <<>>
    /\ label = ""
    /\ pdf = <<>>
    /\ built = <<>>
    /\ stage = "idle"

Init ==
    /\ SessionInit
    /\ chroma_db \in BOOLEAN
    /\ FunctionsIdle

\* the user picks a file in the uploader; the script reruns
UploadFile(f, outcome) ==
    /\ f # uploader[id]
    /\ uploader' = [uploader EXCEPT ![id] = f]
    /\ LET up == upload_block(file_uploader(uploader', id), id, vectorstore, outcome) IN
       /\ outcome # "ok" => up.processed
       /\ vectorstore' = up.vectorstore
       /\ run' = [NoRun EXCEPT !.event = "upload", !.after = run.event,
                               !.raised = up.raised, !.processed = up.processed,
                               !.shown = IF up.raised # "none" THEN "exception"
                                         ELSE IF up.processed THEN "indexed" ELSE "none"]
    /\ UNCHANGED <<id, chat_history, chroma_db, usedKeys, fvars>>

\* the user removes the file from the uploader; the script reruns
RemoveFile ==
    /\ uploader[id] # NoFile
    /\ uploader' = [uploader EXCEPT ![id] = NoFile]
    /\ run' = [NoRun EXCEPT !.event = "remove", !.after = run.event]
    /\ UNCHANGED <<id, vectorstore, chat_history, chroma_db, usedKeys, fvars>>

\* the user clicks "Reset App": reset_application, then the rerun it asks for
reset_application(delete_failed, rmtree_failed, outcome) ==
    /\ id < MaxResets
    /\ delete_failed => vectorstore.present
    /\ rmtree_failed => chroma_db
    /\ IF has_vectorstore_reset(vectorstore) /\ ~vectorstore.present
       THEN \* st.session_state.vectorstore raises: the reset stops there
            /\ outcome = "ok" /\ ~rmtree_failed
            /\ run' = [NoRun EXCEPT !.event = "reset", !.after = run.event,
                                    !.raised = "AttributeError", !.shown = "exception"]
            /\ UNCHANGED <<id, vectorstore, chat_history, uploader, chroma_db, usedKeys>>
       ELSE LET wiped == IF has_vectorstore_reset(vectorstore)
                         THEN vectorstore_after_wipe(vectorstore, delete_failed)
                         ELSE vectorstore
                new_id == next_session_id(id)
                up == upload_block(file_uploader(uploader, new_id), new_id, wiped, outcome)
            IN  /\ outcome # "ok" => up.processed
                /\ chroma_db' = (chroma_db /\ rmtree_failed)
                /\ chat_history' = <<>>
                /\ id' = new_id
                /\ usedKeys' = usedKeys \cup {new_id}
                /\ vectorstore' = up.vectorstore
                /\ run' = [NoRun EXCEPT !.event = "reset", !.after = run.event,
                                        !.raised = up.raised, !.processed = up.processed,
                                        !.shown = IF up.raised # "none" THEN "exception"
                                                  ELSE IF up.processed THEN "indexed" ELSE "none",
                                        !.delete_called = has_vectorstore_reset(vectorstore),
                                        !.delete_failed = delete_failed,
                                        !.rmtree_failed = rmtree_failed]
                /\ UNCHANGED uploader
    /\ UNCHANGED fvars

\* the user submits a question in st.chat_input; the script reruns
Ask(prompt, outcome, retrieval, stream, rewritten, answer) ==
    /\ Len(chat_history) + 2 <= MaxTurns
    /\ LET up == upload_block(file_uploader(uploader, id), id, vectorstore, outcome) IN
       /\ outcome # "ok" => up.processed
       /\ IF up.raised # "none"
          THEN /\ retrieval = "ok" /\ stream = "ok"
               /\ run' = [NoRun EXCEPT !.event = "ask", !.after = run.event, !.input = prompt,
                                       !.raised = up.raised, !.processed = TRUE,
                                       !.shown = "exception"]
               /\ UNCHANGED <<vectorstore, chat_history>>
          ELSE LET chat == chat_loop(chat_history, up.vectorstore, prompt,
                                     retrieval, stream, rewritten, answer) IN
               /\ retrieval # "ok" => chat.raised = "retrieve"
               /\ stream # "ok" => chat.raised = "generate"
               /\ vectorstore' = up.vectorstore
               /\ chat_history' = chat.chat_history
               /\ run' = [NoRun EXCEPT !.event = "ask", !.after = run.event, !.input = prompt,
                                       !.raised = chat.raised, !.processed = up.processed,
                                       !.shown = chat.shown, !.calls = chat.calls]
    /\ UNCHANGED <<id, uploader, chroma_db, usedKeys, fvars>>

Next ==
    \/ \E f \in Files, outcome \in UploadOutcomes : UploadFile(f, outcome)
    \/ RemoveFile
    \/ \E delete_failed \in BOOLEAN, rmtree_failed \in BOOLEAN, outcome \in UploadOutcomes :
           reset_application(delete_failed, rmtree_failed, outcome)
    \/ \E prompt \in Questions, outcome \in UploadOutcomes, retrieval \in RetrievalOutcomes,
          stream \in StreamOutcomes, rewritten \in Questions, answer \in Answers :
           Ask(prompt, outcome, retrieval, stream, rewritten, answer)

Spec == Init /\ [][Next]_vars

\* ---- classify_section on its own ----------------------------------------
SessionIdle == SessionInit /\ chroma_db = FALSE

InitClassify ==
    /\ SessionIdle
    /\ page_text \in Texts
    /\ label = ""
    /\ pdf = <<>>
    /\ built = <<>>
    /\ stage = "input"

Classify ==
    /\ stage = "input"
    /\ label' = classify_section(page_text)
    /\ stage' = "done"
    /\ UNCHANGED <<svars, chroma_db, page_text, pdf, built>>

NextClassify == Classify

SpecClassify == InitClassify /\ [][NextClassify]_vars

\* ---- process_document_to_chroma on its own ------------------------------
InitPipeline ==
    /\ SessionIdle
    /\ page_text = <<>>
    /\ label = ""
    /\ pdf \in Pdfs
    /\ built = <<>>
    /\ stage = "input"

Process ==
    /\ stage = "input"
    /\ built' = process_document_to_chroma(pdf)
    /\ stage' = "done"
    /\ UNCHANGED <<svars, chroma_db, page_text, label, pdf>>

NextPipeline == Process

SpecPipeline == InitPipeline /\ [][NextPipeline]_vars

\* ---- properties ----------------------------------------------------------
\* two characters that are the same letter whatever their case
\* the capital form of a (lower-case) keyword
Capitals(kw) ==
    [j \in 1..Len(kw) |->
        IF \E i \in 1..26 : LowerChars[i] = kw[j]
        THEN UpperChars[CHOOSE i \in 1..26 : LowerChars[i] = kw[j]]
        ELSE kw[j]]

\* kw occurs in t, each letter in either case
Occurs(kw, t) ==
    \E cap \in {Capitals(kw)}, n \in {Len(kw)}, last \in {Len(t) - Len(kw) + 1} :
        \E i \in 1..last : \A j \in 1..n : t[i + j - 1] = kw[j] \/ t[i + j - 1] = cap[j]

Keywords ==
    [mdna |-> {KW_management_discussion, KW_mdna},
     risk |-> {KW_risk},
     financials |-> {KW_financial_statement, KW_balance_sheet},
     notes |-> {KW_notes_to},
     legal |-> {KW_notice, KW_e_voting, KW_agm}]

Priority == <<"mdna", "risk", "financials", "notes", "legal">>

GroupOccurs(g, t) == \E kw \in Keywords[g] : Occurs(kw, t)

\* the label of the first rule, in priority order, with a keyword in t
FirstOf(matching) ==
    IF matching = {} THEN "other"
    ELSE Priority[CHOOSE i \in matching : \A j \in matching : i <= j]

FirstMatch(t) == FirstOf({i \in 1..Len(Priority) : GroupOccurs(Priority[i], t)})

NonLegal == {"mdna", "risk", "financials", "notes", "other"}

\* C1: after a reset the chat history is empty and the session holds no
\* vector index, also when delete_collection and/or rmtree failed; the reset
\* is not aborted by either failure.
C1_ResetClearsSession ==
    run.event = "reset" =>
        /\ run.raised = "none"
        /\ chat_history = <<>>
        /\ ~vectorstore.present

C1_BothCleanupsFailed ==
    /\ run.event = "reset"
    /\ run.delete_called /\ run.delete_failed /\ run.rmtree_failed
    /\ chroma_db

\* C2: a reset that directly follows a reset finds no index, calls no
\* delete_collection, raises nothing, and history is empty and no index is
\* held before and after it.
C2_ResetIdempotent ==
    [][(run.event = "reset" /\ run'.event = "reset") =>
          /\ chat_history = <<>> /\ ~vectorstore.present
          /\ run'.raised = "none"
          /\ ~run'.delete_called
          /\ chat_history' = <<>> /\ ~vectorstore'.present]_vars

C2_SecondReset == run.event = "reset" /\ run.after = "reset" /\ id = 2

\* C3: a question asked while the session has no index and the uploader
\* holds no file (before any upload, after a reset) gets the 'upload a
\* document first' message; no backend call is made, nothing is indexed,
\* and only the user's turn is added to the history; and whenever the chat
\* loop of a run finds no index, that run makes no backend call.
C3_NoIndexNoBackend ==
    [][/\ (run'.event = "ask" /\ ~vectorstore.present /\ uploader[id] = NoFile) =>
              /\ run'.shown = "upload_first"
              /\ run'.raised = "none"
              /\ run'.calls = <<>>
              /\ ~run'.processed
              /\ ~vectorstore'.present
              /\ chat_history' = Append(chat_history, HumanMessage(run'.input))
       /\ (run'.event = "ask" /\ run'.raised = "none" /\ ~vectorstore'.present) =>
              /\ run'.shown = "upload_first"
              /\ run'.calls = <<>>
              /\ chat_history' = Append(chat_history, HumanMessage(run'.input))]_vars

C3_AskedAfterReset ==
    /\ run.event = "ask" /\ run.after = "reset"
    /\ run.shown = "upload_first"
    /\ ~vectorstore.present

\* C4: a failed upload leaves no index and the history unchanged, and the
\* question asked next is answered with the 'upload a document first' message.
C4_FailedUploadThenUploadFirst ==
    [][/\ (run'.event = "upload" /\ run'.raised \in {"ingest", "embed"}) =>
              (~vectorstore'.present /\ chat_history' = chat_history)
       /\ (run.event = "upload" /\ run.raised \in {"ingest", "embed"} /\ run'.event = "ask") =>
              (run'.shown = "upload_first" /\ run'.calls = <<>>)]_vars

\* C5: a question whose retrieval or generation fails leaves the index
\* present and as it was, and adds the user's turn only; an assistant turn is
\* added only by a run whose answer stream was consumed to its end.
C5_QueryFailureKeepsIndex ==
    [][run'.event = "ask" =>
          /\ (run'.raised \in {"retrieve", "generate"}) =>
                /\ vectorstore'.present
                /\ vectorstore.present => vectorstore' = vectorstore
                /\ chat_history' = Append(chat_history, HumanMessage(run'.input))
          /\ (\E i \in (Len(chat_history) + 1)..Len(chat_history') :
                  chat_history'[i].role = "assistant") =>
                /\ run'.shown = "answer"
                /\ run'.raised = "none"
                /\ run'.calls # <<>>
                /\ run'.calls[Len(run'.calls)].op = "generate"]_vars

C5_StreamInterrupted ==
    /\ run.event = "ask" /\ run.raised = "generate" /\ run.shown = "partial"
    /\ vectorstore.present
    /\ chat_history[Len(chat_history)].role = "user"

\* C6: after an upload run that completes with a file in the uploader, the
\* live index is the one built from that file (a new upload replaces the
\* index that was live).
C6_NewUploadReplacesIndex ==
    [][(run'.event = "upload" /\ run'.raised = "none") =>
          (vectorstore'.present /\ vectorstore'.source = uploader'[id'])]_vars

\* C7: no page labelled legal has a chunk in what is handed to the vector
\* store; every chunk is text of a page of the file whose label is one of
\* mdna, risk, financials, notes, other, and carries that label.
C7_LegalExcluded ==
    stage = "done" =>
        \A expected \in {[p \in 1..Len(pdf) |-> FirstMatch(pdf[p])]} :
        /\ \A i \in 1..Len(built) :
              /\ built[i].metadata.page \in 0..(Len(pdf) - 1)
              /\ built[i].metadata.section \in NonLegal
              /\ built[i].metadata.section = expected[built[i].metadata.page + 1]
              /\ In(built[i].page_content, pdf[built[i].metadata.page + 1])
        /\ \A p \in 1..Len(pdf) :
              expected[p] = "legal" =>
                  \A i \in 1..Len(built) : built[i].metadata.page # p - 1

C7_LegalPageDropped ==
    /\ stage = "done"
    /\ \E p \in 1..Len(pdf) : FirstMatch(pdf[p]) = "legal" /\ Len(pdf[p]) > 1200
    /\ \E i, j \in 1..Len(built) : i # j /\ built[i].metadata = built[j].metadata

\* C8: classify_section returns the label of the first rule, in the order
\* mdna, risk, financials, notes, legal, with a keyword occurring in the text
\* whatever its case, and other when none occurs; risk wins over financials.
C8_FirstRuleWins ==
    stage = "done" /\ pdf = <<>> /\ built = <<>> =>
        /\ label \in NonLegal \cup {"legal"}
        /\ label = FirstMatch(page_text)
        /\ (Occurs(KW_risk, page_text) /\ Occurs(KW_balance_sheet, page_text)) =>
              label \in {"mdna", "risk"}
        /\ (Occurs(KW_risk, page_text) /\ Occurs(KW_balance_sheet, page_text)
              /\ ~GroupOccurs("mdna", page_text)) => label = "risk"

C8_RiskAndBalanceSheet ==
    /\ stage = "done"
    /\ label = "risk"
    /\ Occurs(KW_risk, page_text) /\ Occurs(KW_balance_sheet, page_text)

\* C9: the history handed to the reformulator for a question is the history
\* that precedes the question; with no prior turn it is empty and the
\* question goes to the vector search unchanged.
C9_ReformulatorGetsPriorTurns ==
    [][(run'.event = "ask" /\ run'.calls # <<>>) =>
          /\ run'.calls[1].op = "reformulate" => run'.calls[1].chat_history = chat_history
          /\ chat_history = <<>> =>
                (run'.calls[1].op = "search" /\ run'.calls[1].input = run'.input)]_vars

\* C10: a reset strictly increases the session id, the uploader key after it
\* was never rendered before, the rerun indexes nothing, and an index the
\* session holds was built from a file uploaded under the current key.
C10_ResetInvalidatesUploader ==
    /\ [][run'.event = "reset" =>
             /\ id' > id
             /\ id' \notin usedKeys
             /\ file_uploader(uploader', id') = NoFile
             /\ ~run'.processed
             /\ ~vectorstore'.present]_vars
    /\ [](vectorstore.present => vectorstore.key = id)

C10_ResetAfterUpload ==
    /\ run.event = "reset"
    /\ ~vectorstore.present
    /\ \E k \in 0..(id - 1) : uploader[k] # NoFile

====
